---- MODULE Spec2Model ----
(***************************************************************************)
(* The reminder bot of src/bot.py as a state machine.                      *)
(*                                                                         *)
(* State: the two sqlite tables (contacts, reminders, and the              *)
(* AUTOINCREMENT counter of reminders), the process-local job queue of     *)
(* the running application, the wall clock, the configured administrator   *)
(* id, whether the process is up, the messages delivered so far, and the   *)
(* outcome of the last step.                                               *)
(*                                                                         *)
(* Time is counted in ticks; a minute is TicksPerMinute ticks.  A          *)
(* datetime parsed from a command is always a whole minute, the clock is   *)
(* any tick.  Text (messages, names, command arguments) is a sequence of   *)
(* one-character strings.  An Optional[T] is <<>> (None) or <<v>>.         *)
(***************************************************************************)
EXTENDS Integers, Sequences, FiniteSets, Bags, TLC

\* ------------------------------------------------------------------ bounds
MaxNow == 4            \* the clock stops advancing at this tick
MaxReminders == 1      \* rows ever inserted into reminders
MaxDrift == 1          \* ticks the clock may advance between two reads of it
MaxMinute == 2         \* create commands name the minutes 1..MaxMinute (UTC)
TicksPerMinute == 2    \* clock resolution

\* ------------------------------------------------------- program constants
MoscowOffsetMinutes == 180      \* MOSCOW_TZ: Europe/Moscow is UTC+03:00
MinutesPerDay == 1440           \* %H:%M names a minute of a day

None == <<>>
Some(v) == <<v>>

ChatIds == {0, 1, 2}
AdminIds == {0, 1}

\* ------------------------------------------------------------------- text
IsSpace(c) == c = " "

RECURSIVE lstrip(_)
lstrip(s) == IF s # <<>> /\ IsSpace(Head(s)) THEN lstrip(Tail(s)) ELSE s

RECURSIVE rstrip(_)
rstrip(s) ==
    IF s # <<>> /\ IsSpace(s[Len(s)]) THEN rstrip(SubSeq(s, 1, Len(s) - 1)) ELSE s

\* str.strip()
strip(s) == rstrip(lstrip(s))

\* " ".join(args)
RECURSIVE join(_)
join(args) ==
    IF args = <<>> THEN <<>>
    ELSE IF Len(args) = 1 THEN args[1]
    ELSE args[1] \o <<" ">> \o join(Tail(args))

\* args[n:], 0-based as in Python
slice_from(args, n) == SubSeq(args, n + 1, Len(args))

Digits == <<"0", "1", "2", "3", "4", "5", "6", "7", "8", "9">>
IsDigit(c) == \E i \in 1..Len(Digits) : Digits[i] = c
DigitVal(c) == (CHOOSE i \in 1..Len(Digits) : Digits[i] = c) - 1
AllDigits(s) == s # <<>> /\ \A i \in 1..Len(s) : IsDigit(s[i])

RECURSIVE digits_value(_, _)
digits_value(s, acc) ==
    IF s = <<>> THEN acc ELSE digits_value(Tail(s), acc * 10 + DigitVal(Head(s)))

\* int(token): surrounding whitespace and one sign are accepted; anything
\* else than decimal digits raises ValueError (None here).
int_of(tok) ==
    LET t == strip(tok)
        signed == t # <<>> /\ Head(t) \in {"-", "+"}
        body == IF signed THEN Tail(t) ELSE t
    IN IF ~AllDigits(body) THEN None
       ELSE IF signed /\ Head(t) = "-" THEN Some(0 - digits_value(body, 0))
       ELSE Some(digits_value(body, 0))

\* str(n) for n >= 0
RECURSIVE str_of(_)
str_of(n) ==
    IF n < 10 THEN <<Digits[n + 1]>> ELSE str_of(n \div 10) \o <<Digits[(n % 10) + 1]>>

\* sqlite's lower(): ASCII letters only
UpperCase == <<"A", "B">>
LowerCase == <<"a", "b">>
lower_char(c) ==
    IF \E i \in 1..Len(UpperCase) : UpperCase[i] = c
    THEN LowerCase[CHOOSE i \in 1..Len(UpperCase) : UpperCase[i] = c]
    ELSE c
lower(s) == [i \in 1..Len(s) |-> lower_char(s[i])]

\* ------------------------------------------------------------------- time
\* datetime.isoformat() of a UTC datetime: the text up to the seconds field,
\* then ".ffffff" only when the sub-second part is not zero, then "+00:00".
\* Kept as <<whole part, fraction>>; fraction 0 is the text without ".ffffff".
isoformat(t) == <<t \div TicksPerMinute, t % TicksPerMinute>>
fromisoformat(s) == s[1] * TicksPerMinute + s[2]

\* sqlite compares the TEXT column byte by byte: the fixed-width fields up to
\* the seconds decide first; with those equal, "+00:00" sorts before
\* ".ffffff+00:00" ('+' < '.') and two fractions compare digit by digit.
iso_greater(a, b) == a[1] > b[1] \/ (a[1] = b[1] /\ a[2] > b[2])

\* datetime.strptime(date_part + " " + time_part, DATETIME_FORMAT), then
\* Moscow wall time -> UTC.  A date token is a day number and a time token a
\* minute of that day, both plain digits; anything else is the ValueError.
parse_datetime(date_part, time_part) ==
    IF AllDigits(date_part) /\ AllDigits(time_part)
          /\ digits_value(time_part, 0) < MinutesPerDay
    THEN Some((digits_value(date_part, 0) * MinutesPerDay
               + digits_value(time_part, 0) - MoscowOffsetMinutes) * TicksPerMinute)
    ELSE None

validate_future_le(remind_at, clock) == remind_at >= clock
validate_future(remind_at, clock) == remind_at > clock

ensure_message_raw(message) == Some(message)
ensure_message(message) ==
    LET cleaned == strip(message) IN IF cleaned # <<>> THEN Some(cleaned) ELSE None

is_admin_any_zero(admin, chat_id) == chat_id = admin
is_admin(admin, chat_id) == admin # 0 /\ chat_id = admin

\* Python truthiness of Optional[int]
truthy(opt) == opt # None /\ opt[1] # 0

\* ------------------------------------------------------------------ state
VARIABLES
    ADMIN_CHAT_ID,   \* int(os.environ.get("ADMIN_CHAT_ID", "0"))
    contacts,        \* table contacts: rows (chat_id, name), chat_id UNIQUE
    reminders,       \* table reminders: id -> row
    seq,             \* AUTOINCREMENT counter of reminders (largest id ever used)
    jobs,            \* application.job_queue: bag of armed run_once jobs
    sending,         \* send_reminder callbacks awaiting bot.send_message
    delivered,       \* bag of reminders: the messages Telegram has delivered
    now,             \* datetime.now(timezone.utc), in ticks
    running,         \* the process is up (post_init has run)
    last             \* what the last step was and how it ended

vars == <<ADMIN_CHAT_ID, contacts, reminders, seq, jobs, sending, delivered, now, running, last>>

store == <<contacts, reminders, seq>>

\* @dataclass Reminder
Reminder(reminder_id, creator_chat_id, target_chat_id, remind_at, message, repeat_interval_minutes) ==
    [reminder_id |-> reminder_id,
     creator_chat_id |-> creator_chat_id,
     target_chat_id |-> target_chat_id,
     remind_at |-> remind_at,
     message |-> message,
     repeat_interval_minutes |-> repeat_interval_minutes]

\* The outcome of a step: the operation, the chat it served (sender of a
\* command, target of a delivery), the reply sent ("ValueError": the handler
\* ended with that exception and sent none), the reminder id, datetime and
\* repeat interval it handled, and whether that id's row was in the table
\* when a timer callback started.
Outcome(op, chat, reply, id, at, interval, found) ==
    [op |-> op, chat |-> chat, reply |-> reply, id |-> id, at |-> at,
     interval |-> interval, found |-> found]

\* ----------------------------------------------------------- the two tables
\* INSERT ... ON CONFLICT(chat_id) DO UPDATE SET name = excluded.name
ContactRow(chat_id, name) == [chat_id |-> chat_id, name |-> name]
upsert_contact_insert(tbl, chat_id, name) == tbl \cup {ContactRow(chat_id, name)}
upsert_contact(tbl, chat_id, name) ==
    {r \in tbl : r.chat_id # chat_id} \cup {ContactRow(chat_id, name)}

\* The chat ids of the rows lower(name) = lower(?) selects; fetchone()
\* returns one of them (no ORDER BY: which one is up to sqlite), None when
\* the set is empty.
get_contact_by_name_any(tbl, name) == {r.chat_id : r \in tbl}
get_contact_by_name(tbl, name) ==
    {r.chat_id : r \in {x \in tbl : lower(x.name) = lower(name)}}

add_reminder(tbl, id, creator_chat_id, target_chat_id, remind_at, message, repeat_interval_minutes) ==
    (id :> [creator_chat_id |-> creator_chat_id,
            target_chat_id |-> target_chat_id,
            remind_at |-> isoformat(remind_at),
            message |-> message,
            repeat_interval_minutes |-> repeat_interval_minutes]) @@ tbl

update_reminder_time(tbl, reminder_id, remind_at) ==
    IF reminder_id \in DOMAIN tbl
    THEN [tbl EXCEPT ![reminder_id].remind_at = isoformat(remind_at)]
    ELSE tbl

delete_reminder_noop(tbl, reminder_id) == tbl
delete_reminder_upto(tbl, reminder_id) == [i \in {k \in DOMAIN tbl : k > reminder_id} |-> tbl[i]]
delete_reminder(tbl, reminder_id) ==
    [i \in DOMAIN tbl \ {reminder_id} |-> tbl[i]]

\* datetime.fromisoformat(row[3])
StoredAt(tbl, i) == fromisoformat(tbl[i].remind_at)
row_to_reminder(tbl, i) ==
    Reminder(i, tbl[i].creator_chat_id, tbl[i].target_chat_id,
             fromisoformat(tbl[i].remind_at), tbl[i].message,
             tbl[i].repeat_interval_minutes)

get_reminder(tbl, reminder_id) ==
    IF reminder_id \in DOMAIN tbl THEN Some(row_to_reminder(tbl, reminder_id)) ELSE None

\* WHERE remind_at > ? ORDER BY remind_at: every list of the selected rows
\* that is ascending in the stored text (rows with equal text in any order).
load_future_reminders(tbl, clock) ==
    LET ids == {i \in DOMAIN tbl : iso_greater(tbl[i].remind_at, isoformat(clock))}
        n == Cardinality(ids)
        orders == {o \in [1..n -> ids] :
                     /\ \A a, b \in 1..n : a # b => o[a] # o[b]
                     /\ \A a, b \in 1..n :
                          a < b => ~iso_greater(tbl[o[a]].remind_at, tbl[o[b]].remind_at)}
    IN {[k \in 1..n |-> row_to_reminder(tbl, o[k])] : o \in orders}

\* ------------------------------------------------------------ the job queue
Job_delay_in_minutes(reminder, delay, clock) ==
    [name |-> reminder.reminder_id, data |-> reminder, due |-> clock + delay * 60]
Job(reminder, delay, clock) ==
    [name |-> reminder.reminder_id, data |-> reminder, due |-> clock + delay]

schedule_reminder_job_minute(queue, reminder, clock) ==
    IF reminder.remind_at - clock <= TicksPerMinute THEN queue
    ELSE queue (+) SetToBag({Job(reminder, reminder.remind_at - clock, clock)})
schedule_reminder_job_always(queue, reminder, clock) ==
    queue (+) SetToBag({Job(reminder, reminder.remind_at - clock, clock)})
schedule_reminder_job_twice(queue, reminder, clock) ==
    IF reminder.remind_at - clock <= 0 THEN queue
    ELSE queue (+) SetToBag({Job(reminder, reminder.remind_at - clock, clock)})
               (+) SetToBag({Job(reminder, reminder.remind_at - clock, clock)})
\* clock is the datetime.now() this call reads
schedule_reminder_job(queue, reminder, clock) ==
    LET delay == reminder.remind_at - clock
    IN IF delay <= 0 THEN queue
       ELSE queue (+) SetToBag({Job(reminder, delay, clock)})

RECURSIVE arm_each(_, _, _, _)
arm_each(queue, rems, clock, drifts) ==
    IF rems = <<>> THEN queue
    ELSE arm_each(schedule_reminder_job(queue, Head(rems), clock + Head(drifts)),
                  Tail(rems), clock + Head(drifts), Tail(drifts))

RECURSIVE sum(_)
sum(s) == IF s = <<>> THEN 0 ELSE Head(s) + sum(Tail(s))

\* cursor.lastrowid of an INSERT into a table whose id is INTEGER PRIMARY KEY
\* AUTOINCREMENT: one more than the largest id the table ever held.
max_id(ids) == IF ids = {} THEN 0 ELSE CHOOSE i \in ids : \A k \in ids : k <= i
lastrowid_max(tbl, counter) == max_id(DOMAIN tbl) + 1
lastrowid(tbl, counter) == counter + 1

\* add_reminder, then schedule_reminder_job with the clock read there
create_reminder(creator_chat_id, target_chat_id, remind_at, message, repeat_interval_minutes, clock) ==
    LET reminder_id == lastrowid(reminders, seq)
    IN /\ seq' = IF reminder_id > seq THEN reminder_id ELSE seq
       /\ reminders' = add_reminder(reminders, reminder_id, creator_chat_id,
                                    target_chat_id, remind_at, message,
                                    repeat_interval_minutes)
       /\ jobs' = schedule_reminder_job(
                     jobs,
                     Reminder(reminder_id, creator_chat_id, target_chat_id, remind_at,
                              message, repeat_interval_minutes),
                     clock)

\* ------------------------------------------------------------------- Init
Init ==
    /\ ADMIN_CHAT_ID \in AdminIds
    /\ contacts = {}
    /\ reminders = <<>>
    /\ seq = 0
    /\ jobs = EmptyBag
    /\ sending = EmptyBag
    /\ delivered = EmptyBag
    /\ now = 0
    /\ running = FALSE
    /\ last = Outcome("init_db", 0, "none", None, None, None, FALSE)

\* ------------------------------------------------------- command arguments
\* The commands the model issues: <<sender, context.args>>.  Well-formed
\* commands come from every chat; each malformed one from one chat, since
\* how it is rejected does not depend on the sender.
Day0 == str_of(0)
GoodTimes == {str_of(MoscowOffsetMinutes + m) : m \in 1..MaxMinute}
SomeTime == str_of(MoscowOffsetMinutes + 1)
User == CHOOSE c \in ChatIds : c \notin AdminIds
Admin == CHOOSE c \in AdminIds : c # 0

RemindmeCalls ==
    {<<c, <<Day0, t, <<"a">> >> >> : c \in ChatIds, t \in GoodTimes}
    \cup {<<User, a>> : a \in {<< >>,
                               <<Day0, SomeTime, <<" ">> >>,
                               <<Day0, SomeTime, <<" ">>, <<"a">> >>,
                               <<(<<"x">>), SomeTime, <<"a">> >>,
                               <<Day0, str_of(MinutesPerDay), <<"a">> >>}}

RepeatmeCalls ==
    {<<c, <<Day0, t, <<"1">>, <<"a">> >> >> : c \in ChatIds, t \in GoodTimes}
    \cup {<<User, a>> : a \in {<< >>,
                               <<Day0, SomeTime, <<"x">>, <<"a">> >>,
                               <<Day0, SomeTime, <<"0">>, <<"a">> >>,
                               <<Day0, SomeTime, <<"-", "1">>, <<"a">> >>,
                               <<Day0, SomeTime, <<"1">>, <<" ">> >>,
                               <<Day0, <<"x">>, <<"1">>, <<"a">> >>}}

RemindCalls ==
    {<<c, <<(<<"b">>), Day0, t, <<"a">> >> >> : c \in ChatIds, t \in GoodTimes}
    \cup {<<Admin, a>> : a \in {<< >>,
                                <<(<<"b">>), Day0, SomeTime, <<" ">> >>,
                                <<(<<"a">>), Day0, SomeTime, <<"a">> >>,
                                <<(<<"b">>), <<"x">>, SomeTime, <<"a">> >>}}

RepeatCalls ==
    {<<c, <<(<<"b">>), Day0, t, <<"1">>, <<"a">> >> >> : c \in ChatIds, t \in GoodTimes}
    \cup {<<Admin, a>> : a \in {<< >>,
                                <<(<<"b">>), Day0, SomeTime, <<"x">>, <<"a">> >>,
                                <<(<<"b">>), Day0, SomeTime, <<"0">>, <<"a">> >>,
                                <<(<<"b">>), Day0, SomeTime, <<"1">>, <<" ">> >>,
                                <<(<<"a">>), Day0, SomeTime, <<"1">>, <<"a">> >>,
                                <<(<<"b">>), Day0, <<"x">>, <<"1">>, <<"a">> >>}}

CancelmeCalls ==
    {<<c, <<str_of(i)>> >> : c \in ChatIds, i \in 1..MaxReminders}
    \cup {<<User, a>> : a \in {<< >>, << <<"x">> >>, <<str_of(MaxReminders + 1)>>}}

CancelCalls ==
    {<<c, <<str_of(i)>> >> : c \in ChatIds, i \in 1..MaxReminders}
    \cup {<<Admin, a>> : a \in {<< >>, << <<"x">> >>, <<str_of(MaxReminders + 1)>>}}

SetnameCalls ==
    {<<c, <<str_of(User), <<"B">> >> >> : c \in ChatIds}
    \cup {<<Admin, a>> : a \in {<< >>,
                                << <<"x">>, <<"B">> >>,
                                <<str_of(User), <<" ">> >>}}

StartCalls == {<<User, Some(<<"B">>)>>}

Drifts == 0..MaxDrift

\* A command replies and changes nothing.
Reply(op, chat, reply, id, at) ==
    /\ last' = Outcome(op, chat, reply, id, at, None, FALSE)
    /\ UNCHANGED <<ADMIN_CHAT_ID, contacts, reminders, seq, jobs, sending, delivered, now, running>>

\* A create command stores and arms its reminder, d ticks after it read the
\* clock to validate the date.
Created(op, chat, reply, target, remind_at, message, repeat_interval_minutes, d) ==
    /\ now + d <= MaxNow
    /\ create_reminder(chat, target, remind_at, message, repeat_interval_minutes,
                       now + d)
    /\ now' = now + d
    /\ last' = Outcome(op, chat, reply, Some(lastrowid(reminders, seq)), Some(remind_at),
                       repeat_interval_minutes, FALSE)
    /\ UNCHANGED <<ADMIN_CHAT_ID, contacts, sending, delivered, running>>

\* --------------------------------------------------------------- handlers
start(chat, effective_user) ==
    /\ running
    /\ contacts' = upsert_contact(
                      contacts, chat,
                      IF effective_user # None THEN effective_user[1] ELSE str_of(chat))
    /\ last' = Outcome("start", chat, "welcome", None, None, None, FALSE)
    /\ UNCHANGED <<ADMIN_CHAT_ID, reminders, seq, jobs, sending, delivered, now, running>>

setname(chat, args) ==
    /\ running
    /\ IF ~is_admin(ADMIN_CHAT_ID, chat)
       THEN Reply("setname", chat, "admin_only", None, None)
       ELSE IF Len(args) < 2
       THEN Reply("setname", chat, "format", None, None)
       ELSE IF int_of(args[1]) = None
       THEN Reply("setname", chat, "ValueError", None, None)
       ELSE LET chat_id == int_of(args[1])[1]
                name == strip(join(slice_from(args, 1)))
            IN IF name = <<>>
               THEN Reply("setname", chat, "empty_name", None, None)
               ELSE /\ contacts' = upsert_contact(contacts, chat_id, name)
                    /\ last' = Outcome("setname", chat, "saved", None, None, None, FALSE)
                    /\ UNCHANGED <<ADMIN_CHAT_ID, reminders, seq, jobs, sending, delivered,
                                   now, running>>

contacts_cmd(chat) ==
    /\ running
    /\ IF ~is_admin(ADMIN_CHAT_ID, chat)
       THEN Reply("contacts", chat, "admin_only", None, None)
       ELSE IF contacts = {}
       THEN Reply("contacts", chat, "no_contacts", None, None)
       ELSE Reply("contacts", chat, "listed", None, None)

remindme(chat, args, d) ==
    /\ running
    /\ IF Len(args) < 3
       THEN Reply("remindme", chat, "format", None, None)
       ELSE LET message == ensure_message(join(slice_from(args, 2)))
                remind_at == parse_datetime(args[1], args[2])
            IN IF message = None
               THEN Reply("remindme", chat, "empty_text", None, None)
               ELSE IF remind_at = None
               THEN Reply("remindme", chat, "bad_date", None, None)
               ELSE IF ~validate_future(remind_at[1], now)
               THEN Reply("remindme", chat, "not_future", None, remind_at)
               ELSE Created("remindme", chat, "scheduled", chat, remind_at[1],
                            message[1], None, d)

repeatme(chat, args, d) ==
    /\ running
    /\ IF Len(args) < 4
       THEN Reply("repeatme", chat, "format", None, None)
       ELSE LET interval_minutes == int_of(args[3])
                message == ensure_message(join(slice_from(args, 3)))
                remind_at == parse_datetime(args[1], args[2])
            IN IF interval_minutes = None
               THEN Reply("repeatme", chat, "bad_interval", None, None)
               ELSE IF interval_minutes[1] <= 0
               THEN Reply("repeatme", chat, "nonpositive_interval", None, None)
               ELSE IF message = None
               THEN Reply("repeatme", chat, "empty_text", None, None)
               ELSE IF remind_at = None
               THEN Reply("repeatme", chat, "bad_date", None, None)
               ELSE IF ~validate_future(remind_at[1], now)
               THEN Reply("repeatme", chat, "not_future", None, remind_at)
               ELSE Created("repeatme", chat, "scheduled", chat, remind_at[1],
                            message[1], interval_minutes, d)

my(chat) ==
    /\ running
    /\ IF \A i \in DOMAIN reminders : reminders[i].creator_chat_id # chat
       THEN Reply("my", chat, "no_reminders", None, None)
       ELSE Reply("my", chat, "listed", None, None)

cancelme_delete_first(chat, args) ==
    /\ running
    /\ IF args = <<>>
       THEN Reply("cancelme", chat, "format", None, None)
       ELSE IF int_of(args[1]) = None
       THEN Reply("cancelme", chat, "bad_id", None, None)
       ELSE LET reminder_id == int_of(args[1])[1]
                reminder == get_reminder(reminders, reminder_id)
            IN /\ reminders' = delete_reminder(reminders, reminder_id)
               /\ last' = Outcome("cancelme", chat,
                                  IF reminder = None \/ reminder[1].creator_chat_id # chat
                                  THEN "not_found" ELSE "cancelled",
                                  Some(reminder_id), None, None, FALSE)
               /\ UNCHANGED <<ADMIN_CHAT_ID, contacts, seq, jobs, sending, delivered, now, running>>

cancelme_any_creator(chat, args) ==
    /\ running
    /\ IF args = <<>>
       THEN Reply("cancelme", chat, "format", None, None)
       ELSE IF int_of(args[1]) = None
       THEN Reply("cancelme", chat, "bad_id", None, None)
       ELSE LET reminder_id == int_of(args[1])[1]
                reminder == get_reminder(reminders, reminder_id)
            IN IF reminder = None
               THEN Reply("cancelme", chat, "not_found", Some(reminder_id), None)
               ELSE /\ reminders' = delete_reminder(reminders, reminder_id)
                    /\ last' = Outcome("cancelme", chat, "cancelled", Some(reminder_id),
                                       None, None, FALSE)
                    /\ UNCHANGED <<ADMIN_CHAT_ID, contacts, seq, jobs, sending, delivered,
                                   now, running>>

cancelme(chat, args) ==
    /\ running
    /\ IF args = <<>>
       THEN Reply("cancelme", chat, "format", None, None)
       ELSE IF int_of(args[1]) = None
       THEN Reply("cancelme", chat, "bad_id", None, None)
       ELSE LET reminder_id == int_of(args[1])[1]
                reminder == get_reminder(reminders, reminder_id)
            IN IF reminder = None \/ reminder[1].creator_chat_id # chat
               THEN Reply("cancelme", chat, "not_found", Some(reminder_id), None)
               ELSE /\ reminders' = delete_reminder(reminders, reminder_id)
                    /\ last' = Outcome("cancelme", chat, "cancelled", Some(reminder_id),
                                       None, None, FALSE)
                    /\ UNCHANGED <<ADMIN_CHAT_ID, contacts, seq, jobs, sending, delivered,
                                   now, running>>

remind(chat, args, d) ==
    /\ running
    /\ IF ~is_admin(ADMIN_CHAT_ID, chat)
       THEN Reply("remind", chat, "admin_only", None, None)
       ELSE IF Len(args) < 4
       THEN Reply("remind", chat, "format", None, None)
       ELSE LET message == ensure_message(join(slice_from(args, 3)))
                contact == get_contact_by_name(contacts, args[1])
                remind_at == parse_datetime(args[2], args[3])
            IN IF message = None
               THEN Reply("remind", chat, "empty_text", None, None)
               ELSE IF contact = {}
               THEN Reply("remind", chat, "contact_not_found", None, None)
               ELSE IF remind_at = None
               THEN Reply("remind", chat, "bad_date", None, None)
               ELSE IF ~validate_future(remind_at[1], now)
               THEN Reply("remind", chat, "not_future", None, remind_at)
               ELSE \E target \in contact :
                        Created("remind", chat, "scheduled", target, remind_at[1],
                                message[1], None, d)

repeat(chat, args, d) ==
    /\ running
    /\ IF ~is_admin(ADMIN_CHAT_ID, chat)
       THEN Reply("repeat", chat, "admin_only", None, None)
       ELSE IF Len(args) < 5
       THEN Reply("repeat", chat, "format", None, None)
       ELSE LET interval_minutes == int_of(args[4])
                message == ensure_message(join(slice_from(args, 4)))
                contact == get_contact_by_name(contacts, args[1])
                remind_at == parse_datetime(args[2], args[3])
            IN IF interval_minutes = None
               THEN Reply("repeat", chat, "bad_interval", None, None)
               ELSE IF interval_minutes[1] <= 0
               THEN Reply("repeat", chat, "nonpositive_interval", None, None)
               ELSE IF message = None
               THEN Reply("repeat", chat, "empty_text", None, None)
               ELSE IF contact = {}
               THEN Reply("repeat", chat, "contact_not_found", None, None)
               ELSE IF remind_at = None
               THEN Reply("repeat", chat, "bad_date", None, None)
               ELSE IF ~validate_future(remind_at[1], now)
               THEN Reply("repeat", chat, "not_future", None, remind_at)
               ELSE \E target \in contact :
                        Created("repeat", chat, "scheduled", target, remind_at[1],
                                message[1], interval_minutes, d)

list_reminders(chat) ==
    /\ running
    /\ IF ~is_admin(ADMIN_CHAT_ID, chat)
       THEN Reply("list", chat, "admin_only", None, None)
       ELSE IF DOMAIN reminders = {}
       THEN Reply("list", chat, "no_reminders", None, None)
       ELSE Reply("list", chat, "listed", None, None)

cancel(chat, args) ==
    /\ running
    /\ IF ~is_admin(ADMIN_CHAT_ID, chat)
       THEN Reply("cancel", chat, "admin_only", None, None)
       ELSE IF args = <<>>
       THEN Reply("cancel", chat, "format", None, None)
       ELSE IF int_of(args[1]) = None
       THEN Reply("cancel", chat, "bad_id", None, None)
       ELSE LET reminder_id == int_of(args[1])[1]
                reminder == get_reminder(reminders, reminder_id)
            IN IF reminder = None
               THEN Reply("cancel", chat, "not_found", Some(reminder_id), None)
               ELSE /\ reminders' = delete_reminder(reminders, reminder_id)
                    /\ last' = Outcome("cancel", chat, "cancelled", Some(reminder_id),
                                       None, None, FALSE)
                    /\ UNCHANGED <<ADMIN_CHAT_ID, contacts, seq, jobs, sending, delivered,
                                   now, running>>

help_command(chat) ==
    /\ running
    /\ Reply("help", chat, "help", None, None)

\* ------------------------------------------------------- the timer callback
\* The job queue runs an armed job, not before it is due and once: the
\* callback starts and awaits bot.send_message.  Other handlers run while it
\* waits.
send_reminder_await_keep(j) ==
    /\ running
    /\ BagIn(j, jobs)
    /\ now >= j.due
    /\ sending' = sending (+) SetToBag({[data |-> j.data,
                                         found |-> j.name \in DOMAIN reminders]})
    /\ last' = Outcome("job_run", j.data.target_chat_id, "sending", Some(j.name),
                       Some(j.data.remind_at), j.data.repeat_interval_minutes,
                       j.name \in DOMAIN reminders)
    /\ UNCHANGED <<ADMIN_CHAT_ID, contacts, reminders, seq, jobs, delivered, now, running>>
send_reminder_await(j) ==
    /\ running
    /\ BagIn(j, jobs)
    /\ now >= j.due
    /\ jobs' = jobs (-) SetToBag({j})
    /\ sending' = sending (+) SetToBag({[data |-> j.data,
                                         found |-> j.name \in DOMAIN reminders]})
    /\ last' = Outcome("job_run", j.data.target_chat_id, "sending", Some(j.name),
                       Some(j.data.remind_at), j.data.repeat_interval_minutes,
                       j.name \in DOMAIN reminders)
    /\ UNCHANGED <<ADMIN_CHAT_ID, contacts, reminders, seq, delivered, now, running>>

\* reminder.remind_at + timedelta(minutes=reminder.repeat_interval_minutes)
next_time_from_now(reminder, clock) ==
    clock + reminder.repeat_interval_minutes[1] * TicksPerMinute
next_remind_at(reminder, clock) ==
    reminder.remind_at + reminder.repeat_interval_minutes[1] * TicksPerMinute

\* bot.send_message returns (ok) or raises; the rest of send_reminder runs.
send_reminder_resume(s, ok) ==
    LET reminder == s.data
        next_time == next_remind_at(reminder, now)
    IN /\ running
       /\ BagIn(s, sending)
       /\ sending' = sending (-) SetToBag({s})
       /\ last' = Outcome("send_reminder", reminder.target_chat_id,
                          IF ok THEN "delivered" ELSE "send_error",
                          Some(reminder.reminder_id), Some(reminder.remind_at),
                          reminder.repeat_interval_minutes, s.found)
       /\ delivered' = IF ok THEN delivered (+) SetToBag({reminder})
                        ELSE delivered
       /\ IF ~ok
          THEN UNCHANGED <<reminders, jobs>>
          ELSE IF truthy(reminder.repeat_interval_minutes)
          THEN /\ reminders' = update_reminder_time(reminders, reminder.reminder_id,
                                                    next_time)
               /\ jobs' = schedule_reminder_job(
                             jobs,
                             Reminder(reminder.reminder_id, reminder.creator_chat_id,
                                      reminder.target_chat_id, next_time,
                                      reminder.message,
                                      reminder.repeat_interval_minutes),
                             now)
          ELSE /\ reminders' = delete_reminder(reminders, reminder.reminder_id)
               /\ UNCHANGED jobs
       /\ UNCHANGED <<ADMIN_CHAT_ID, contacts, seq, now, running>>

\* --------------------------------------------------------- process lifecycle
\* main(): init_db, build the application, post_init = on_startup.  The
\* clock is read once for the query and again by each schedule_reminder_job.
on_startup_overdue(rems, drifts) ==
    /\ ~running
    /\ rems \in load_future_reminders(reminders, now)
    /\ Len(drifts) = Len(rems)
    /\ now + sum(drifts) <= MaxNow
    /\ jobs' = SetToBag({Job(row_to_reminder(reminders, i),
                             IF StoredAt(reminders, i) > now + sum(drifts)
                             THEN StoredAt(reminders, i) - (now + sum(drifts)) ELSE 0,
                             now + sum(drifts)) : i \in DOMAIN reminders})
    /\ now' = now + sum(drifts)
    /\ running' = TRUE
    /\ last' = Outcome("on_startup", 0, "none", None, None, None, FALSE)
    /\ UNCHANGED <<ADMIN_CHAT_ID, contacts, reminders, seq, sending, delivered>>
on_startup(rems, drifts) ==
    /\ ~running
    /\ rems \in load_future_reminders(reminders, now)
    /\ Len(drifts) = Len(rems)
    /\ now + sum(drifts) <= MaxNow
    /\ jobs' = arm_each(EmptyBag, rems, now, drifts)
    /\ now' = now + sum(drifts)
    /\ running' = TRUE
    /\ last' = Outcome("on_startup", 0, "none", None, None, None, FALSE)
    /\ UNCHANGED <<ADMIN_CHAT_ID, contacts, reminders, seq, sending, delivered>>

\* The process stops: the job queue and the running callbacks are gone, the
\* database file stays.  Of the callbacks that were awaiting
\* bot.send_message, those in sent had their message delivered already.
RECURSIVE data_of(_)
data_of(S) ==
    IF S = {} THEN EmptyBag
    ELSE LET s == CHOOSE x \in S : TRUE
         IN SetToBag({s.data}) (+) data_of(S \ {s})

Crash(sent) ==
    /\ running
    /\ sent \subseteq BagToSet(sending)
    /\ running' = FALSE
    /\ jobs' = EmptyBag
    /\ sending' = EmptyBag
    /\ delivered' = delivered (+) data_of(sent)
    /\ last' = Outcome("crash", 0, "none", None, None, None, FALSE)
    /\ UNCHANGED <<ADMIN_CHAT_ID, contacts, reminders, seq, now>>

Tick ==
    /\ now < MaxNow
    /\ now' = now + 1
    /\ last' = Outcome("tick", 0, "none", None, None, None, FALSE)
    /\ UNCHANGED <<ADMIN_CHAT_ID, contacts, reminders, seq, jobs, sending, delivered,
                   running>>

DriftLists == UNION {[1..n -> Drifts] : n \in 0..MaxReminders}

\* The reminders table holds ids up to cap: the runs explored insert no more.
AtMost(cap) == seq' <= cap

Next ==
    \/ Tick
    \/ \E sent \in SUBSET BagToSet(sending) : Crash(sent)
    \/ \E rems \in load_future_reminders(reminders, now), drifts \in DriftLists :
          on_startup(rems, drifts)
    \/ \E c \in StartCalls : start(c[1], c[2])
    \/ \E c \in SetnameCalls : setname(c[1], c[2])
    \/ \E chat \in ChatIds : contacts_cmd(chat)
    \/ \E c \in RemindmeCalls, d \in Drifts : remindme(c[1], c[2], d) /\ AtMost(MaxReminders)
    \/ \E c \in RepeatmeCalls, d \in Drifts : repeatme(c[1], c[2], d) /\ AtMost(MaxReminders)
    \/ my(User)
    \/ \E c \in CancelmeCalls : cancelme(c[1], c[2])
    \/ \E c \in RemindCalls, d \in Drifts : remind(c[1], c[2], d) /\ AtMost(MaxReminders)
    \/ \E c \in RepeatCalls, d \in Drifts : repeat(c[1], c[2], d) /\ AtMost(MaxReminders)
    \/ \E chat \in ChatIds : list_reminders(chat)
    \/ \E c \in CancelCalls : cancel(c[1], c[2])
    \/ help_command(User)
    \/ \E j \in BagToSet(jobs) : send_reminder_await(j)
    \/ \E s \in BagToSet(sending), ok \in BOOLEAN : send_reminder_resume(s, ok)

Spec == Init /\ [][Next]_vars

\* ================================================================ claims
AdminOps == {"setname", "contacts", "remind", "repeat", "list", "cancel"}
CreateOps == {"remindme", "repeatme", "remind", "repeat"}
Rejections ==
    {"format", "empty_text", "bad_date", "not_future", "bad_interval",
     "nonpositive_interval", "bad_id", "not_found", "contact_not_found", "empty_name"}

IsAdministrator(chat) == ADMIN_CHAT_ID # 0 /\ chat = ADMIN_CHAT_ID
JobsNamed(queue, id) == {j \in BagToSet(queue) : j.name = id}
Delivered(o) == o.op = "send_reminder" /\ o.reply = "delivered"
DeliveriesOf(bag, i) == {r \in BagToSet(bag) : r.reminder_id = i}

\* C1: a timer callback that fires for a reminder whose row was deleted before
\* it started does nothing: it delivers no message, leaves the reminders
\* table as it is and arms no job for that id.
C1_StaleCallbackDoesNothing ==
    [][(last'.op = "send_reminder" /\ ~last'.found)
         => /\ last'.reply # "delivered"
            /\ reminders' = reminders
            /\ JobsNamed(jobs', last'.id[1]) = {}]_vars

\* C2: a chat that is neither the creator of a reminder nor the administrator
\* cannot remove it: /cancelme with its id is answered "not found", /cancel
\* is answered "admin only", and the row stays as it was.
C2_OwnershipEnforced ==
    [][(last'.op \in {"cancelme", "cancel"} /\ ~IsAdministrator(last'.chat))
         => /\ \A r \in DOMAIN reminders :
                 reminders[r].creator_chat_id # last'.chat
                   => /\ r \in DOMAIN reminders'
                      /\ reminders'[r] = reminders[r]
                      /\ last'.id = Some(r)
                           => last'.reply = "not_found" /\ reminders' = reminders
            /\ last'.op = "cancel"
                 => last'.reply = "admin_only" /\ reminders' = reminders]_vars

C2_Witness ==
    /\ last.op = "cancelme"
    /\ last.reply = "not_found"
    /\ ~IsAdministrator(last.chat)
    /\ last.id # None
    /\ last.id[1] \in DOMAIN reminders
    /\ reminders[last.id[1]].creator_chat_id # last.chat

\* C3: an admin-only command sent by anyone but a non-zero configured
\* administrator is answered "admin only" and changes neither table nor the
\* job queue; with ADMIN_CHAT_ID = 0 that includes the sender 0.
C3_AdminGating ==
    [][(last'.op \in AdminOps /\ ~IsAdministrator(last'.chat))
         => /\ last'.reply = "admin_only"
            /\ UNCHANGED <<contacts, reminders, seq, jobs>>]_vars

C3_Witness ==
    /\ ADMIN_CHAT_ID = 0
    /\ last.chat = 0
    /\ last.op = "cancel"
    /\ last.reply = "admin_only"
    /\ DOMAIN reminders # {}

\* C4: a create command whose parsed datetime is not after the clock it is
\* validated against is answered "not in the future", stores no row and arms
\* no job; every row a step inserts is after the clock of that validation.
C4_FutureOnly ==
    [][/\ (last'.op \in CreateOps /\ last'.at # None /\ last'.at[1] <= now)
            => /\ last'.reply = "not_future"
               /\ UNCHANGED <<contacts, reminders, seq, jobs>>
       /\ \A i \in DOMAIN reminders' \ DOMAIN reminders :
            StoredAt(reminders', i) > now]_vars

C4_Witness ==
    /\ last.op \in CreateOps
    /\ last.reply = "not_future"
    /\ last.at = Some(now)

C6_RearmedAfterDelivery ==
    [][(Delivered(last') /\ truthy(last'.interval) /\ last'.id[1] \in DOMAIN reminders)
         => /\ last'.id[1] \in DOMAIN reminders'
            /\ \E j \in JobsNamed(jobs', last'.id[1]) :
                 /\ JobsNamed(jobs', last'.id[1]) = {j}
                 /\ CopiesIn(j, jobs') = 1
                 /\ j.data.remind_at
                      = last'.at[1] + last'.interval[1] * TicksPerMinute]_vars

\* C7: recovery arms exactly the stored reminders whose fire time is after
\* the clock at startup, each once and due at its fire time, and no other.
C7_RecoveryComplete ==
    [][last'.op = "on_startup"
         => \A i \in DOMAIN reminders :
              IF StoredAt(reminders, i) > now
              THEN \E j \in JobsNamed(jobs', i) :
                     /\ JobsNamed(jobs', i) = {j}
                     /\ CopiesIn(j, jobs') = 1
                     /\ j.due = StoredAt(reminders, i)
              ELSE JobsNamed(jobs', i) = {}]_vars

\* C8: when the callback of a one-shot reminder has delivered its message,
\* the row is gone and no job is armed for that id.
C8_OneShotCompletion ==
    [][(Delivered(last') /\ ~truthy(last'.interval))
         => /\ last'.id[1] \notin DOMAIN reminders'
            /\ JobsNamed(jobs', last'.id[1]) = {}]_vars

C8_Witness ==
    /\ Delivered(last)
    /\ last.interval = None
    /\ last.found
    /\ last.id[1] \notin DOMAIN reminders
    /\ seq >= last.id[1]

\* C9: a command answered with a validation or not-found rejection leaves
\* both tables and the job queue exactly as they were.
C9_RejectionsChangeNothing ==
    [][last'.reply \in Rejections
         => UNCHANGED <<contacts, reminders, seq, jobs, sending>>]_vars

C9_Witness ==
    /\ last.reply = "not_found"
    /\ last.op = "cancelme"
    /\ last.id # None
    /\ last.id[1] \in DOMAIN reminders
    /\ BagToSet(jobs) # {}

\* C10: every handler ends by sending a reply; none ends with an uncaught
\* exception.
C10_HandlersAlwaysReply == last.reply # "ValueError"

\* ------------------------------------------------- the contact directory
\* The directory and who a reminder goes to: /start and /setname register
\* names that differ in case only or not at all, for every chat id; every
\* chat sends /remindme and /repeatme, and /remind and /repeat with each of
\* the names, the reminder text repeating the name that was looked up.
DirectoryNames == {<<"a">>, <<"A">>, <<"b">>}

NextDirectory ==
    \/ on_startup(<< >>, << >>)
    \/ \E chat \in ChatIds, name \in DirectoryNames : start(chat, Some(name))
    \/ \E chat \in ChatIds, name \in DirectoryNames :
          setname(Admin, <<str_of(chat), name>>)
    \/ \E chat \in ChatIds :
          remindme(chat, <<Day0, SomeTime, <<"a">> >>, 0) /\ AtMost(MaxReminders)
    \/ \E chat \in ChatIds :
          repeatme(chat, <<Day0, SomeTime, <<"1">>, <<"a">> >>, 0) /\ AtMost(MaxReminders)
    \/ \E chat \in ChatIds, name \in DirectoryNames :
          remind(chat, <<name, Day0, SomeTime, name>>, 0) /\ AtMost(MaxReminders)
    \/ \E chat \in ChatIds, name \in DirectoryNames :
          repeat(chat, <<name, Day0, SomeTime, <<"1">>, name>>, 0) /\ AtMost(MaxReminders)

SpecDirectory == Init /\ [][NextDirectory]_vars

OnePerChatId == \A r, q \in contacts : r.chat_id = q.chat_id => r = q
ContactsOf(tbl, chat_id) == {r \in tbl : r.chat_id = chat_id}
Renamed(chat_id, n1, n2) == upsert_contact(upsert_contact(contacts, chat_id, n1), chat_id, n2)

\* C11 as claimed: the table holds at most one row per chat id; after
\* upsert(c, n1) and then upsert(c, n2) with another name it holds one row
\* for c, named n2, and the lookup of n1 finds nothing.
C11_OldNameNotFound ==
    /\ OnePerChatId
    /\ \A c \in ChatIds, n1, n2 \in DirectoryNames :
         n1 # n2 => /\ ContactsOf(Renamed(c, n1, n2), c) = {ContactRow(c, n2)}
                    /\ get_contact_by_name(Renamed(c, n1, n2), n1) = {}

\* C11, amended: the table holds at most one row per chat id; after
\* upsert(c, n1) and then upsert(c, n2) with another name it holds one row
\* for c, named n2, and the lookup of n1 finds c only when n2 is n1 in
\* another case, and besides c the chats registered under n1 in any case.
C11_LatestNameOnly ==
    /\ OnePerChatId
    /\ \A c \in ChatIds, n1, n2 \in DirectoryNames :
         n1 # n2 => /\ ContactsOf(Renamed(c, n1, n2), c) = {ContactRow(c, n2)}
                    /\ get_contact_by_name(Renamed(c, n1, n2), n1)
                         = {r.chat_id : r \in {x \in contacts : /\ x.chat_id # c
                                                                /\ lower(x.name) = lower(n1)}}
                           \cup (IF lower(n2) = lower(n1) THEN {c} ELSE {})

\* a chat renamed by /setname while another chat holds the same name in
\* another case
C11_Witness ==
    /\ last.op = "setname"
    /\ last.reply = "saved"
    /\ \E r, q \in contacts : /\ r.chat_id # q.chat_id
                              /\ r.name # q.name
                              /\ lower(r.name) = lower(q.name)

\* ------------------------------------------------------- several reminders
\* One chat with no administrator configured: it creates up to
\* MaxTimerReminders one-shot and recurring reminders and cancels them, the
\* jobs run, the process stops and starts again.
MaxTimerReminders == 2

InitTimers == Init /\ ADMIN_CHAT_ID = 0

TimerDriftLists == UNION {[1..n -> Drifts] : n \in 0..MaxTimerReminders}

NextTimers ==
    \/ Tick
    \/ \E sent \in SUBSET BagToSet(sending) : Crash(sent)
    \/ \E rems \in load_future_reminders(reminders, now), drifts \in TimerDriftLists :
          on_startup(rems, drifts)
    \/ \E t \in GoodTimes, d \in Drifts :
          remindme(User, <<Day0, t, <<"a">> >>, d) /\ AtMost(MaxTimerReminders)
    \/ \E t \in GoodTimes, d \in Drifts :
          repeatme(User, <<Day0, t, <<"1">>, <<"a">> >>, d) /\ AtMost(MaxTimerReminders)
    \/ \E i \in 1..MaxTimerReminders : cancelme(User, <<str_of(i)>>)
    \/ \E j \in BagToSet(jobs) : send_reminder_await(j)
    \/ \E s \in BagToSet(sending), ok \in BOOLEAN : send_reminder_resume(s, ok)

SpecTimers == InitTimers /\ [][NextTimers]_vars

\* C12: DELETE of an id that is not in the table changes nothing; DELETE of
\* any id leaves every other row as it was, and a second DELETE of the same
\* id changes nothing more.  The callback of a one-shot reminder whose row is
\* gone runs that DELETE and the table stays as it was.
C12_IdempotentDelete ==
    /\ [](\A i \in 1..(MaxTimerReminders + 1) :
            /\ i \notin DOMAIN reminders => delete_reminder(reminders, i) = reminders
            /\ delete_reminder(delete_reminder(reminders, i), i)
                 = delete_reminder(reminders, i)
            /\ DOMAIN delete_reminder(reminders, i) = DOMAIN reminders \ {i}
            /\ \A k \in DOMAIN reminders \ {i} :
                 delete_reminder(reminders, i)[k] = reminders[k])
    /\ [][(Delivered(last') /\ ~truthy(last'.interval)
            /\ last'.id[1] \notin DOMAIN reminders)
           => reminders' = reminders]_vars

\* the callback of a cancelled one-shot reminder has run its DELETE while
\* another reminder is stored
C12_Witness ==
    /\ Delivered(last)
    /\ last.interval = None
    /\ ~last.found
    /\ DOMAIN reminders # {}

\* C13: at any moment the job queue holds at most one job per reminder id,
\* whatever was created, delivered and re-armed, cancelled or recovered at
\* startup before.
C13_OneJobPerId ==
    \A i \in 1..MaxTimerReminders :
        /\ Cardinality(JobsNamed(jobs, i)) <= 1
        /\ \A j \in JobsNamed(jobs, i) : CopiesIn(j, jobs) = 1

\* startup has armed again a recurring reminder that was delivered and
\* re-armed before the process stopped, next to a job of the other reminder
C13_Witness ==
    /\ last.op = "on_startup"
    /\ \E i, k \in 1..MaxTimerReminders :
         /\ i # k
         /\ DeliveriesOf(delivered, i) # {}
         /\ JobsNamed(jobs, i) # {}
         /\ JobsNamed(jobs, k) # {}

InFlight(i) == {s \in BagToSet(sending) : s.data.reminder_id = i}
Lost(i) ==
    /\ i \in DOMAIN reminders
    /\ StoredAt(reminders, i) <= now
    /\ JobsNamed(jobs, i) = {}
    /\ InFlight(i) = {}

\* C14: startup arms no job for a stored reminder whose fire time is not
\* after the clock and leaves its row as it is; from then on the row stays
\* as it is, no job is armed and no message is delivered for it, until
\* /cancelme or /cancel deletes it.
C14_MissedWhileOffline ==
    /\ [][last'.op = "on_startup"
            => \A i \in DOMAIN reminders : StoredAt(reminders, i) <= now => Lost(i)']_vars
    /\ [][\A i \in DOMAIN reminders :
            Lost(i) => \/ /\ Lost(i)'
                          /\ reminders'[i] = reminders[i]
                          /\ \A r \in DeliveriesOf(delivered', i) :
                               CopiesIn(r, delivered') = CopiesIn(r, delivered)
                       \/ /\ i \notin DOMAIN reminders'
                          /\ last'.op \in {"cancelme", "cancel"}
                          /\ last'.reply = "cancelled"
                          /\ last'.id = Some(i)]_vars

\* startup found a reminder that came due while the process was down, never
\* delivered, and armed the other reminder only
C14_Witness ==
    /\ last.op = "on_startup"
    /\ \E i, k \in DOMAIN reminders :
         /\ StoredAt(reminders, i) < now
         /\ DeliveriesOf(delivered, i) = {}
         /\ Lost(i)
         /\ JobsNamed(jobs, k) # {}

\* C15: every stored row has a message that is not empty once trimmed and a
\* repeat interval that is NULL or a positive number of minutes; a row
\* inserted by /remindme or /remind has the interval NULL.
C15_DataInvariant ==
    /\ [](\A i \in DOMAIN reminders :
            /\ strip(reminders[i].message) # <<>>
            /\ \/ reminders[i].repeat_interval_minutes = None
               \/ reminders[i].repeat_interval_minutes[1] > 0)
    /\ [][\A i \in DOMAIN reminders' \ DOMAIN reminders :
            last'.op \in {"remindme", "remind"}
              => reminders'[i].repeat_interval_minutes = None]_vars

\* a recurring reminder stored with its trimmed text and a positive interval
C15_Witness ==
    /\ last.op \in {"repeatme", "repeat"}
    /\ last.reply = "scheduled"
    /\ last.id[1] \in DOMAIN reminders
    /\ reminders[last.id[1]].message = <<"a">>
    /\ reminders[last.id[1]].repeat_interval_minutes = Some(1)

\* C16: a create command that stores a reminder arms one job named by its
\* id, due at its fire time, when the fire time is after the clock read at
\* arming, and no job otherwise; the row is stored either way and no other
\* row, contact or job changes.
C16_ArmOnlyAhead ==
    [][(last'.op \in CreateOps /\ last'.reply = "scheduled")
         => /\ last'.id[1] \in DOMAIN reminders'
            /\ StoredAt(reminders', last'.id[1]) = last'.at[1]
            /\ \A i \in DOMAIN reminders : reminders'[i] = reminders[i]
            /\ contacts' = contacts
            /\ IF last'.at[1] - now' > 0
               THEN \E j \in JobsNamed(jobs', last'.id[1]) :
                      /\ jobs' = jobs (+) SetToBag({j})
                      /\ CopiesIn(j, jobs') = 1
                      /\ j.due = last'.at[1]
                      /\ j.data = row_to_reminder(reminders', last'.id[1])
               ELSE jobs' = jobs]_vars

\* the fire time passed between validate_future and schedule_reminder_job:
\* the row is stored and no job is armed for it
C16_Witness ==
    /\ last.op \in CreateOps
    /\ last.reply = "scheduled"
    /\ last.at[1] <= now
    /\ last.id[1] \in DOMAIN reminders
    /\ JobsNamed(jobs, last.id[1]) = {}

\* C17: the ids in the table are ids the counter has handed out; an id that
\* was handed out and is no longer in the table never is again, a new row
\* gets an id above every id handed out before, and a timer callback that
\* resumes when its row is gone (cancelled before it ran or while it awaited
\* the delivery) leaves the table as it is.
C17_NeverComesBack ==
    /\ [](DOMAIN reminders \subseteq 1..seq)
    /\ [][/\ \A i \in 1..seq : i \notin DOMAIN reminders => i \notin DOMAIN reminders'
          /\ \A k \in DOMAIN reminders' \ DOMAIN reminders : k > seq
          /\ (last'.op = "send_reminder" /\ last'.id[1] \notin DOMAIN reminders)
               => reminders' = reminders]_vars

\* the callback of a cancelled recurring reminder has delivered and run its
\* UPDATE after a later reminder was stored under the next id
C17_Witness ==
    /\ Delivered(last)
    /\ truthy(last.interval)
    /\ ~last.found
    /\ last.id[1] < seq
    /\ last.id[1] \notin DOMAIN reminders
    /\ seq \in DOMAIN reminders

Registered(tbl, name) == {r.chat_id : r \in {x \in tbl : lower(x.name) = lower(name)}}

\* C18: every stored reminder whose creator is not the configured
\* administrator goes to its creator; a reminder /remind or /repeat stores
\* goes to a chat that the contacts table held, at that moment, under the
\* name given, in any case.
C18_OnlyAdminTargetsOthers ==
    /\ [](\A i \in DOMAIN reminders :
            ~IsAdministrator(reminders[i].creator_chat_id)
              => reminders[i].target_chat_id = reminders[i].creator_chat_id)
    /\ [][\A i \in DOMAIN reminders' \ DOMAIN reminders :
            last'.op \in {"remind", "repeat"}
              => /\ IsAdministrator(reminders'[i].creator_chat_id)
                 /\ reminders'[i].target_chat_id
                      \in Registered(contacts, reminders'[i].message)]_vars

\* the administrator's reminder for a name two chats are registered under
\* went to another chat than the administrator's
C18_Witness ==
    /\ last.op \in {"remind", "repeat"}
    /\ last.reply = "scheduled"
    /\ \E i \in DOMAIN reminders :
         /\ last.id = Some(i)
         /\ reminders[i].target_chat_id # reminders[i].creator_chat_id
         /\ Cardinality(Registered(contacts, reminders[i].message)) = 2

\* C19: the message of a one-shot reminder is delivered at most once,
\* whatever is created, run, cancelled, stopped and started again.
C19_OneShotAtMostOnce ==
    \A i \in 1..MaxTimerReminders :
        \A r \in DeliveriesOf(delivered, i) :
            ~truthy(r.repeat_interval_minutes)
              => /\ DeliveriesOf(delivered, i) = {r}
                 /\ CopiesIn(r, delivered) = 1

\* the process stopped after the message of a one-shot reminder was
\* delivered and before its DELETE; startup found the row and armed nothing
C19_Witness ==
    /\ last.op = "on_startup"
    /\ \E i \in DOMAIN reminders :
         /\ reminders[i].repeat_interval_minutes = None
         /\ DeliveriesOf(delivered, i) # {}
         /\ Lost(i)

\* C20: while the process runs, every stored reminder whose fire time is
\* after the clock has a job named by its id that carries the stored fire
\* time, target and text.
C20_StoreTimerConsistent ==
    running
      => \A i \in DOMAIN reminders :
           StoredAt(reminders, i) > now
             => \E j \in JobsNamed(jobs, i) :
                  /\ j.data.remind_at = StoredAt(reminders, i)
                  /\ j.due = StoredAt(reminders, i)
                  /\ j.data.target_chat_id = reminders[i].target_chat_id
                  /\ j.data.message = reminders[i].message

\* a recurring reminder, delivered and re-armed, has its job for the next
\* fire time while the other stored reminder, overdue, has none
C20_Witness ==
    /\ running
    /\ \E i, k \in DOMAIN reminders :
         /\ StoredAt(reminders, i) > now
         /\ DeliveriesOf(delivered, i) # {}
         /\ \E j \in JobsNamed(jobs, i) : j.due = StoredAt(reminders, i)
         /\ Lost(k)

\* ------------------------------------------------------ eventual delivery
\* One run of the process: it starts once and does not stop, every
\* bot.send_message returns, the clock advances, the job queue runs every
\* job that is due and every callback that awaits a delivery resumes.  The
\* user registers and creates one-shot and recurring reminders, the
\* administrator creates one-shot reminders for that contact, and both
\* cancel reminders.  No reminder is
\* created for a time after the last tick of the clock.
WithinClock == \A i \in DOMAIN reminders' : StoredAt(reminders', i) <= MaxNow

InitLive == Init /\ ADMIN_CHAT_ID = Admin

RunJobOf(i) == \E j \in JobsNamed(jobs, i) : send_reminder_await(j)
DeliverOf(i) == \E s \in InFlight(i) : send_reminder_resume(s, TRUE)

NextLive ==
    \/ Tick
    \/ on_startup(<< >>, << >>)
    \/ \E c \in StartCalls : start(c[1], c[2])
    \/ \E t \in GoodTimes, d \in Drifts :
          /\ remindme(User, <<Day0, t, <<"a">> >>, d)
          /\ AtMost(MaxTimerReminders)
          /\ WithinClock
    \/ \E t \in GoodTimes, d \in Drifts :
          /\ remind(Admin, <<(<<"b">>), Day0, t, <<"a">> >>, d)
          /\ AtMost(MaxTimerReminders)
          /\ WithinClock
    \/ \E t \in GoodTimes, d \in Drifts :
          /\ repeatme(User, <<Day0, t, <<"1">>, <<"a">> >>, d)
          /\ AtMost(MaxTimerReminders)
          /\ WithinClock
    \/ \E chat \in {User, Admin}, i \in 1..MaxTimerReminders :
          cancelme(chat, <<str_of(i)>>)
    \/ \E i \in 1..MaxTimerReminders : RunJobOf(i)
    \/ \E i \in 1..MaxTimerReminders : DeliverOf(i)

Fairness ==
    /\ WF_vars(Tick)
    /\ \A i \in 1..MaxTimerReminders : WF_vars(RunJobOf(i)) /\ WF_vars(DeliverOf(i))

SpecLive == InitLive /\ [][NextLive]_vars /\ Fairness

ArmedOneShot(i) ==
    /\ i \in DOMAIN reminders
    /\ reminders[i].repeat_interval_minutes = None
    /\ JobsNamed(jobs, i) # {}
Completed(i) ==
    /\ i \notin DOMAIN reminders
    /\ DeliveriesOf(delivered, i) # {}
CancelledJustNow(i) ==
    /\ last.op \in {"cancelme", "cancel"}
    /\ last.reply = "cancelled"
    /\ last.id = Some(i)

\* C21: in a run where the process does not stop, the clock advances, due
\* jobs are run and every delivery succeeds, a stored one-shot reminder that
\* has a job armed is in the end delivered and its row deleted, unless it is
\* cancelled; and a delivery for a stored reminder goes to its target chat.
C21_EventualDelivery ==
    /\ \A i \in 1..MaxTimerReminders :
         ArmedOneShot(i) ~> (Completed(i) \/ CancelledJustNow(i))
    /\ [][(Delivered(last') /\ last'.id[1] \in DOMAIN reminders)
           => last'.chat = reminders[last'.id[1]].target_chat_id]_vars

\* the administrator's one-shot reminder for a contact was delivered to
\* that chat at its fire time and its row is gone
C21_Witness ==
    /\ Delivered(last)
    /\ last.interval = None
    /\ last.found
    /\ Completed(last.id[1])
    /\ now = last.at[1]
    /\ \E r \in DeliveriesOf(delivered, last.id[1]) :
         /\ r.target_chat_id = last.chat
         /\ r.creator_chat_id # r.target_chat_id

====
